---- MODULE Spec2Model ----
(***************************************************************************)
(* Model of electrode_controller_plugin (src/__init__.py): the electrode / *)
(* channel state translator (get_state), the combine_first merge into the  *)
(* per-step authoritative electrode-state Series, the actuated-area        *)
(* aggregate and the MQTT message handlers.                                *)
(*                                                                         *)
(* A pandas Series is a sequence of <<label, value>> pairs: the order of   *)
(* the pairs is the order of the index, a label may occur more than once,  *)
(* and a missing value is NaN.                                             *)
(***************************************************************************)
EXTENDS Integers, Sequences, FiniteSets, TLC

\* ------------------------------------------------------------------ bounds
\* longest electrode_states Series an inbound payload carries
MaxUpdateLen == 1
\* most rows of the electrode/channel table when the translator is checked
\* on its own
MaxMapLen == 3
\* longest input Series when the translator is checked on its own
MaxInputLen == 2
\* most messages and step swaps handled in one behaviour
MaxHandled == 2

\* the longest update of a message when the store is checked under
\* set-states messages alone, and the number of messages handled then
MaxStoreUpdateLen == 2

MaxStoreHandled == 3

\* the number of messages and step swaps when the MQTT thread is followed
\* step by step
MaxThreadHandled == 3

\* the longest electrode state map when the actuated area is checked on its
\* own
MaxAreaLen == 2

\* ------------------------------------------------------------- value sets
\* electrode identifiers, in their sort order (pandas sorts labels)
ElectrodeOrder == <<"e1", "e2", "e3">>

Electrodes == {ElectrodeOrder[i] : i \in DOMAIN ElectrodeOrder}

Channels == {1, 2}

\* activation levels carried by payloads (0 = inactive)
StateValues == {0, 1}

\* protocol steps of the host application
Steps == {0, 1}

\* the missing value of pandas; every real value of the model is >= 0
NaN == -1

\* body(value): names an intermediate value, which is computed once
With(value, body(_)) == body(value)

\* ---------------------------------------------------------- Series helpers
Index(s) == [i \in DOMAIN s |-> s[i][1]]

Values(s) == [i \in DOMAIN s |-> s[i][2]]

Keys(s) == {s[i][1] : i \in DOMAIN s}

IsUnique(s) == \A i, j \in DOMAIN s : s[i][1] = s[j][1] => i = j

HasKey(s, k) == \E i \in DOMAIN s : s[i][1] = k

\* value of the first entry labelled k
At(s, k) == s[CHOOSE i \in DOMAIN s : s[i][1] = k /\ \A j \in DOMAIN s : s[j][1] = k => i <= j][2]

\* pd.Series(values, index=index)
MakeSeries(index, values) == [i \in DOMAIN index |-> <<index[i], values[i]>>]

RECURSIVE Concat(_)
Concat(ss) == IF ss = <<>> THEN <<>> ELSE Head(ss) \o Concat(Tail(ss))

\* the entries of s labelled k, in the order of s
Rows(s, k) == SelectSeq(s, LAMBDA row : row[1] = k)

\* series.ix[labels]: for each label in turn every entry carrying it; a label
\* the index does not hold yields one NaN entry (reindexing, no KeyError)
Ix(s, labels) == Concat([i \in DOMAIN labels |-> IF HasKey(s, labels[i]) THEN Rows(s, labels[i]) ELSE <<<<labels[i], NaN>>>>])

dropna(s) == SelectSeq(s, LAMBDA row : row[2] # NaN)

RECURSIVE KeepFirst(_, _)
\* the entries of s whose label is not in seen and did not occur earlier in s
KeepFirst(s, seen) == IF s = <<>> THEN <<>> ELSE IF Head(s)[1] \in seen THEN KeepFirst(Tail(s), seen) ELSE <<Head(s)>> \o KeepFirst(Tail(s), seen \cup {Head(s)[1]})

Reverse(s) == [i \in DOMAIN s |-> s[Len(s) + 1 - i]]

\* a mutant of drop_duplicates_by_index: keeps the last entry of each label
drop_duplicates_keep_last(series) == Reverse(KeepFirst(Reverse(series), {}))

\* a mutant of drop_duplicates_by_index: drops nothing
drop_duplicates_noop(series) == series

\* series[~series.index.duplicated()]: the first entry of each label
drop_duplicates_by_index(series) == KeepFirst(series, {})

\* ------------------------------------------------- device geometry provider
\* df_electrode_channels is the table of <<electrode_id, channel>> rows
channels_by_electrode(df) == df

electrodes_by_channel(df) == [i \in DOMAIN df |-> <<df[i][2], df[i][1]>>]

\* dmf_device.actuated_channels(electrode_ids)
actuated_channels(df, electrode_ids) == Ix(channels_by_electrode(df), electrode_ids)

\* ------------------------------------------------------------- translator
\* a mutant of get_state: electrode_states is not expanded through the
\* channels, only the requested electrodes that have a channel are returned
get_state_no_siblings(df, electrode_states) ==
    With(dropna(actuated_channels(df, Index(electrode_states))), LAMBDA electrode_channels :
    With(drop_duplicates_by_index(MakeSeries(Values(electrode_channels), Values(Ix(electrode_states, Index(electrode_channels))))), LAMBDA channel_states :
        [electrode_states |-> drop_duplicates_by_index(Ix(electrode_states, Index(electrode_channels))),
         channel_states |-> channel_states]))

\* a mutant of get_state: the requested electrodes that have no channel
\* are returned with the state asked for
get_state_keeping_unmapped(df, electrode_states) ==
    With(dropna(actuated_channels(df, Index(electrode_states))), LAMBDA electrode_channels :
    With(drop_duplicates_by_index(MakeSeries(Values(electrode_channels), Values(Ix(electrode_states, Index(electrode_channels))))), LAMBDA channel_states :
    With(Ix(electrodes_by_channel(df), Index(channel_states)), LAMBDA channel_electrodes :
        [electrode_states |-> drop_duplicates_by_index(MakeSeries(Values(channel_electrodes), Values(Ix(channel_states, Index(channel_electrodes)))) \o SelectSeq(electrode_states, LAMBDA row : row[1] \notin Keys(electrode_channels))),
         channel_states |-> channel_states])))

get_state(df, electrode_states) ==
    With(dropna(actuated_channels(df, Index(electrode_states))), LAMBDA electrode_channels :
    With(drop_duplicates_by_index(MakeSeries(Values(electrode_channels), Values(Ix(electrode_states, Index(electrode_channels))))), LAMBDA channel_states :
    With(Ix(electrodes_by_channel(df), Index(channel_states)), LAMBDA channel_electrodes :
        [electrode_states |-> drop_duplicates_by_index(MakeSeries(Values(channel_electrodes), Values(Ix(channel_states, Index(channel_electrodes))))),
         channel_states |-> channel_states])))

\* ------------------------------------------------------ state store, merger
\* the labels of the set, sorted
SortLabels(labels) == SelectSeq(ElectrodeOrder, LAMBDA e : e \in labels)

Range(seq) == {seq[i] : i \in DOMAIN seq}

\* Index.union: self when other is empty or equal, other when self is
\* empty, and the sorted union otherwise
IndexUnion(self, other) == IF other = <<>> \/ self = other THEN self ELSE IF self = <<>> THEN other ELSE SortLabels(Range(self) \cup Range(other))

\* series.reindex(labels) of a Series with unique labels
reindex(s, labels) == [i \in DOMAIN labels |-> <<labels[i], IF HasKey(s, labels[i]) THEN At(s, labels[i]) ELSE NaN>>]

\* a mutant of combine_first: the prior map wins where both define a label
combine_first_other_wins(this, other) ==
    With(IndexUnion(Index(this), Index(other)), LAMBDA new_index :
    With(reindex(this, new_index), LAMBDA a :
    With(reindex(other, new_index), LAMBDA b :
        [i \in DOMAIN new_index |-> <<new_index[i], IF b[i][2] = NaN THEN a[i][2] ELSE b[i][2]>>])))

\* a mutant of combine_first: a full replace by the update
combine_first_replace(this, other) == this

\* this.combine_first(other): over the union of the two indexes, the value
\* of this where it is not null and the value of other elsewhere
combine_first(this, other) ==
    With(IndexUnion(Index(this), Index(other)), LAMBDA new_index :
    With(reindex(this, new_index), LAMBDA a :
    With(reindex(other, new_index), LAMBDA b :
        [i \in DOMAIN new_index |-> <<new_index[i], IF a[i][2] = NaN THEN b[i][2] ELSE a[i][2]>>])))

RECURSIVE SumSeq(_)
SumSeq(xs) == IF xs = <<>> THEN 0 ELSE Head(xs) + SumSeq(Tail(xs))

\* Series.sum(): missing values are skipped; all_nan is what the installed
\* pandas returns for a non-empty Series that holds only missing values
SeriesSum(s, all_nan) == IF s # <<>> /\ dropna(s) = <<>> THEN all_nan ELSE SumSeq(Values(dropna(s)))

\* the property getter: step_options.get('electrode_states', pd.Series())
electrode_states_getter(step_options) == IF step_options.present THEN step_options.value ELSE <<>>

\* the property setter: step_options['electrode_states'] = electrode_states
electrode_states_setter(step_options, value) == [present |-> TRUE, value |-> value]

\* a mutant of get_actuated_area: every electrode of the map counts,
\* whatever its state
get_actuated_area_any_state(electrode_areas, states, all_nan) == SeriesSum(Ix(electrode_areas, Index(states)), all_nan)

get_actuated_area(electrode_areas, states, all_nan) ==
    With(Index(SelectSeq(states, LAMBDA row : row[2] > 0)), LAMBDA actuated_electrodes :
        SeriesSum(Ix(electrode_areas, actuated_electrodes), all_nan))

\* ------------------------------------------------------------------ topics
TopicPlanningSetStates == "microdrop/droplet-planning-plugin/set-electrode-states"

TopicUiSetStates == "microdrop/dmf-device-ui/set-electrode-states"

TopicPlanningSetState == "microdrop/droplet-planning-plugin/set-electrode-state"

TopicUiSetState == "microdrop/dmf-device-ui/set-electrode-state"

TopicUiGetChannelStates == "microdrop/dmf-device-ui/get-channel-states"

TopicOutSetStates == "microdrop/electrode-controller-plugin/set-electrode-states"

TopicOutGetChannelStates == "microdrop/electrode-controller-plugin/get-channel-states"

\* the topics on_connect subscribes to
SubscribedTopics == {TopicPlanningSetStates, TopicUiSetStates, TopicPlanningSetState, TopicUiSetState, TopicUiGetChannelStates}

\* -------------------------------------------------------------------- JSON
\* PandasJsonEncoder: a Series travels as its index list and its value list
PandasJsonEncode(s) == [index |-> Index(s), values |-> Values(s)]

\* pandas_object_hook: the Series of an encoded index list and value list
pandas_object_hook(o) == MakeSeries(o.index, o.values)

\* An inbound payload: ok says whether json.loads accepts the text, fields
\* are the keys of the decoded object; a key that is absent holds its default
Payload(ok, fields, es, save, electrode_id, state) == [ok |-> ok, fields |-> fields, electrode_states |-> es, save |-> save, electrode_id |-> electrode_id, state |-> state]

Undecodable == Payload(FALSE, {}, PandasJsonEncode(<<>>), FALSE, "", 0)

\* the Series of at most MaxUpdateLen entries with distinct labels
InputSeries == {s \in UNION {[1..n -> Electrodes \X StateValues] : n \in 0..MaxUpdateLen} : IsUnique(s)}

WellFormedSetStates == {Payload(TRUE, {"electrode_states"}, PandasJsonEncode(s), FALSE, "", 0) : s \in InputSeries} \cup {Payload(TRUE, {"electrode_states", "save"}, PandasJsonEncode(s), b, "", 0) : s \in InputSeries, b \in BOOLEAN}

MalformedSetStates == {Undecodable, Payload(TRUE, {}, PandasJsonEncode(<<>>), FALSE, "", 0), Payload(TRUE, {"save"}, PandasJsonEncode(<<>>), TRUE, "", 0)}

WellFormedSetState == {Payload(TRUE, {"electrode_id", "state"}, PandasJsonEncode(<<>>), FALSE, e, v) : e \in Electrodes, v \in StateValues}

MalformedSetState == {Undecodable} \cup {Payload(TRUE, {"electrode_id"}, PandasJsonEncode(<<>>), FALSE, e, 0) : e \in Electrodes} \cup {Payload(TRUE, {"state"}, PandasJsonEncode(<<>>), FALSE, "", v) : v \in StateValues}

SetStatesPayloads == WellFormedSetStates \cup MalformedSetStates

SetStatePayloads == WellFormedSetState \cup MalformedSetState

\* the payloads a broker delivers on a topic
PayloadsOn(topic) == IF topic \in {TopicPlanningSetStates, TopicUiSetStates} THEN SetStatesPayloads ELSE IF topic \in {TopicPlanningSetState, TopicUiSetState} THEN SetStatePayloads ELSE {Undecodable}

\* ------------------------------------------------------- effects of a handler
NoData == [keys |-> {}, electrode_states |-> PandasJsonEncode(<<>>), channel_states |-> PandasJsonEncode(<<>>), actuated_area |-> 0]

\* the setter stored value as the electrode_states of step
WriteEvent(step, value) == [op |-> "write", step |-> step, value |-> value, topic |-> "", data |-> NoData]

\* gtk.idle_add(notify, step): on_step_options_changed is queued for step
IdleAddEvent(step) == [op |-> "idle_add", step |-> step, value |-> <<>>, topic |-> "", data |-> NoData]

\* mqtt_client.publish(topic, json.dumps(data), retain=True)
PublishEvent(step, topic, data) == [op |-> "publish", step |-> step, value |-> <<>>, topic |-> topic, data |-> data]

\* the value a handler returns: the translator's result and the area
Result(result, actuated_area) == [returned |-> TRUE, electrode_states |-> result.electrode_states, channel_states |-> result.channel_states, actuated_area |-> actuated_area]

NoResult == [returned |-> FALSE, electrode_states |-> <<>>, channel_states |-> <<>>, actuated_area |-> 0]

\* what a handler leaves: the step's options, its effects in the order they
\* happened, the exception that left it ("None" when it returned) and the
\* value it returned
Outcome(options, log, raised, result) == [options |-> options, log |-> log, raised |-> raised, result |-> result]

\* ----------------------------------------------------------------- handlers
\* a mutant of get_channel_states: the translated view is stored back
get_channel_states_storing(step_options, step, df, electrode_areas, all_nan) ==
    With(get_state(df, electrode_states_getter(step_options)), LAMBDA result :
        Outcome(electrode_states_setter(step_options, result.electrode_states), <<>>, "None", Result(result, 0)))

\* step_options are the options of the current step, step its number
get_channel_states(step_options, step, df, electrode_areas, all_nan) ==
    With(get_state(df, electrode_states_getter(step_options)), LAMBDA result :
    With(get_actuated_area(electrode_areas, result.electrode_states, all_nan), LAMBDA actuated_area :
    With([keys |-> {"electrode_states", "channel_states", "actuated_area"},
          electrode_states |-> PandasJsonEncode(result.electrode_states),
          channel_states |-> PandasJsonEncode(result.channel_states),
          actuated_area |-> actuated_area], LAMBDA data :
        Outcome(step_options, <<PublishEvent(step, TopicOutGetChannelStates, data)>>, "None", Result(result, actuated_area)))))

\* a mutant of set_electrode_states: the snapshot is published before the
\* merged map is stored
set_electrode_states_publish_first(step_options, step, df, electrode_areas, all_nan, data) ==
    IF "electrode_states" \notin data.fields THEN Outcome(step_options, <<>>, "KeyError", NoResult)
    ELSE With(get_state(df, data.electrode_states), LAMBDA result :
         With(combine_first(result.electrode_states, electrode_states_getter(step_options)), LAMBDA merged :
         With(electrode_states_setter(step_options, merged), LAMBDA stored :
         With([NoData EXCEPT !.keys = {"electrode_states"}, !.electrode_states = PandasJsonEncode(electrode_states_getter(step_options))], LAMBDA out :
             Outcome(stored, <<PublishEvent(step, TopicOutSetStates, out), WriteEvent(step, merged)>>, "None", Result(result, get_actuated_area(electrode_areas, electrode_states_getter(stored), all_nan)))))))

\* a mutant of set_electrode_states: only the update is published
set_electrode_states_publish_update(step_options, step, df, electrode_areas, all_nan, data) ==
    IF "electrode_states" \notin data.fields THEN Outcome(step_options, <<>>, "KeyError", NoResult)
    ELSE With(get_state(df, data.electrode_states), LAMBDA result :
         With(combine_first(result.electrode_states, electrode_states_getter(step_options)), LAMBDA merged :
         With(electrode_states_setter(step_options, merged), LAMBDA stored :
         With([NoData EXCEPT !.keys = {"electrode_states"}, !.electrode_states = PandasJsonEncode(result.electrode_states)], LAMBDA out :
             Outcome(stored, <<WriteEvent(step, merged), PublishEvent(step, TopicOutSetStates, out)>>, "None", Result(result, get_actuated_area(electrode_areas, electrode_states_getter(stored), all_nan)))))))

\* a mutant of set_electrode_states: the presence of the save key, not
\* its value, triggers the save request
set_electrode_states_save_if_present(step_options, step, df, electrode_areas, all_nan, data) ==
    IF "electrode_states" \notin data.fields THEN Outcome(step_options, <<>>, "KeyError", NoResult)
    ELSE With(get_state(df, data.electrode_states), LAMBDA result :
         With(combine_first(result.electrode_states, electrode_states_getter(step_options)), LAMBDA merged :
         With(electrode_states_setter(step_options, merged), LAMBDA stored :
         With(IF "save" \in data.fields THEN <<IdleAddEvent(step)>> ELSE <<>>, LAMBDA notify :
         With([NoData EXCEPT !.keys = {"electrode_states"}, !.electrode_states = PandasJsonEncode(electrode_states_getter(stored))], LAMBDA out :
             Outcome(stored, <<WriteEvent(step, merged)>> \o notify \o <<PublishEvent(step, TopicOutSetStates, out)>>, "None", Result(result, get_actuated_area(electrode_areas, electrode_states_getter(stored), all_nan))))))))

\* data is the decoded payload, its electrode_states already a Series
set_electrode_states(step_options, step, df, electrode_areas, all_nan, data) ==
    IF "electrode_states" \notin data.fields THEN Outcome(step_options, <<>>, "KeyError", NoResult)
    ELSE With(IF "save" \in data.fields THEN data.save ELSE FALSE, LAMBDA save :
         With(get_state(df, data.electrode_states), LAMBDA result :
         With(combine_first(result.electrode_states, electrode_states_getter(step_options)), LAMBDA merged :
         With(electrode_states_setter(step_options, merged), LAMBDA stored :
         With(IF save THEN <<IdleAddEvent(step)>> ELSE <<>>, LAMBDA notify :
         With(get_actuated_area(electrode_areas, electrode_states_getter(stored), all_nan), LAMBDA actuated_area :
         With([NoData EXCEPT !.keys = {"electrode_states"}, !.electrode_states = PandasJsonEncode(electrode_states_getter(stored))], LAMBDA out :
             Outcome(stored, <<WriteEvent(step, merged)>> \o notify \o <<PublishEvent(step, TopicOutSetStates, out)>>, "None", Result(result, actuated_area)))))))))

\* a mutant of set_electrode_state: a missing state counts as 0
set_electrode_state_default_state(step_options, step, df, electrode_areas, all_nan, msg) ==
    IF "electrode_id" \notin msg.fields THEN Outcome(step_options, <<>>, "KeyError", NoResult)
    ELSE With([fields |-> {"electrode_states"}, electrode_states |-> MakeSeries(<<msg.electrode_id>>, <<IF "state" \in msg.fields THEN msg.state ELSE 0>>), save |-> FALSE], LAMBDA data :
             set_electrode_states(step_options, step, df, electrode_areas, all_nan, data))

\* msg is the decoded payload of a set-electrode-state message
set_electrode_state(step_options, step, df, electrode_areas, all_nan, msg) ==
    IF "state" \notin msg.fields \/ "electrode_id" \notin msg.fields THEN Outcome(step_options, <<>>, "KeyError", NoResult)
    ELSE With([fields |-> {"electrode_states"}, electrode_states |-> MakeSeries(<<msg.electrode_id>>, <<msg.state>>), save |-> FALSE], LAMBDA data :
             set_electrode_states(step_options, step, df, electrode_areas, all_nan, data))

\* json.loads(payload, object_hook=pandas_object_hook), once it has succeeded
LoadsWithHook(payload) == [fields |-> payload.fields, electrode_states |-> pandas_object_hook(payload.electrode_states), save |-> payload.save]

\* json.loads(payload), once it has succeeded
Loads(payload) == [fields |-> payload.fields, electrode_id |-> payload.electrode_id, state |-> payload.state]

\* on_message: the handler of the topic, on the decoded payload; a payload
\* json.loads rejects leaves the handler with ValueError
on_message(step_options, step, df, electrode_areas, all_nan, topic, payload) ==
    IF topic = TopicPlanningSetStates
    THEN IF ~payload.ok THEN Outcome(step_options, <<>>, "ValueError", NoResult)
         ELSE set_electrode_states(step_options, step, df, electrode_areas, all_nan, LoadsWithHook(payload))
    ELSE IF topic = TopicUiSetStates
    THEN IF ~payload.ok THEN Outcome(step_options, <<>>, "ValueError", NoResult)
         ELSE set_electrode_states(step_options, step, df, electrode_areas, all_nan, LoadsWithHook(payload))
    ELSE IF topic = TopicUiSetState
    THEN IF ~payload.ok THEN Outcome(step_options, <<>>, "ValueError", NoResult)
         ELSE set_electrode_state(step_options, step, df, electrode_areas, all_nan, Loads(payload))
    ELSE IF topic = TopicUiGetChannelStates
    THEN get_channel_states(step_options, step, df, electrode_areas, all_nan)
    ELSE Outcome(step_options, <<>>, "None", NoResult)

\* ------------------------------------------------------------ state machine
VARIABLES
    df_electrode_channels,  \* the device's table of <<electrode_id, channel>> rows
    electrode_areas,        \* the device's Series of electrode areas
    sum_of_all_nan,         \* what the installed pandas sums only-missing values to
    steps,                  \* the plugin's step options, by step number
    current_step_number,    \* the protocol's current step
    subscriptions,          \* the topics the client is subscribed to
    handler,                \* the handler that ran last
    msg,                    \* the message on_message handled last
    log,                    \* the effects of the last handler, in order
    raised,                 \* the exception that left the last handler
    returned,               \* the value the last handler returned
    handled,                \* the number of messages and step swaps handled so far
    translated,             \* the Series handed to get_state when it is checked on its own
    pc,                     \* where the MQTT thread stands in set_electrode_states
    frame                   \* the locals of set_electrode_states in the MQTT thread

vars == <<df_electrode_channels, electrode_areas, sum_of_all_nan, steps, current_step_number, subscriptions, handler, msg, log, raised, returned, handled, translated, pc, frame>>

\* the MQTT thread's position and locals
thread == <<pc, frame>>

\* no call of set_electrode_states is under way; accessed lists the step
\* numbers get_step_options() read at each access of the step's options
NoFrame == [save |-> FALSE, result |-> [electrode_states |-> <<>>, channel_states |-> <<>>], merged |-> <<>>, area_states |-> <<>>, actuated_area |-> 0, accessed |-> <<>>]

device == <<df_electrode_channels, electrode_areas, sum_of_all_nan>>

CompleteAreas == <<<<"e1", 2>>, <<"e2", 3>>, <<"e3", 4>>>>

\* an area table that lacks electrode e3
PartialAreas == <<<<"e1", 2>>, <<"e2", 3>>>>

Device(df, areas, all_nan) == [df_electrode_channels |-> df, electrode_areas |-> areas, sum_of_all_nan |-> all_nan]

\* the devices the plugin is run with: no electrode has a channel; one to
\* one, e3 without channel; e1 and e2 share a channel, in a table that is
\* not in label order; e1 has two channels; a many-to-many chain; and a
\* device with the incomplete area table, under either pandas build
Devices == {Device(<<>>, CompleteAreas, 0),
            Device(<<<<"e1", 1>>, <<"e2", 2>>>>, CompleteAreas, 0),
            Device(<<<<"e2", 1>>, <<"e1", 1>>, <<"e3", 2>>>>, CompleteAreas, 0),
            Device(<<<<"e1", 2>>, <<"e1", 1>>, <<"e2", 1>>>>, CompleteAreas, 0),
            Device(<<<<"e1", 1>>, <<"e2", 1>>, <<"e2", 2>>, <<"e3", 2>>>>, CompleteAreas, 0),
            Device(<<<<"e1", 1>>, <<"e3", 2>>>>, PartialAreas, 0),
            Device(<<<<"e1", 1>>, <<"e3", 2>>>>, PartialAreas, NaN)}

\* whether the payload is one the handler of the topic can decode
IsWellFormed(topic, payload) == IF topic \in {TopicPlanningSetStates, TopicUiSetStates} THEN payload.ok /\ "electrode_states" \in payload.fields ELSE IF topic \in {TopicPlanningSetState, TopicUiSetState} THEN payload.ok /\ {"electrode_id", "state"} \subseteq payload.fields ELSE TRUE

\* the electrode states a well-formed set message asks for
Requested(topic, payload) == IF ~IsWellFormed(topic, payload) THEN <<>> ELSE IF topic \in {TopicPlanningSetStates, TopicUiSetStates} THEN LoadsWithHook(payload).electrode_states ELSE IF topic \in {TopicPlanningSetState, TopicUiSetState} THEN MakeSeries(<<Loads(payload).electrode_id>>, <<Loads(payload).state>>) ELSE <<>>

\* what is kept of a delivered message: its topic, whether its payload is
\* well formed, whether the payload asks for a save, and the electrode
\* states it asks for when it names a single electrode
Delivered(topic, payload) == [topic |-> topic, well_formed |-> IsWellFormed(topic, payload), save |-> payload.ok /\ "save" \in payload.fields /\ payload.save, single |-> IF Len(Requested(topic, payload)) = 1 THEN Requested(topic, payload) ELSE <<>>]

NoMsg == [topic |-> "", well_formed |-> FALSE, save |-> FALSE, single |-> <<>>]

NoOptions == [present |-> FALSE, value |-> <<>>]

Init ==
    /\ \E d \in Devices :
        /\ df_electrode_channels = d.df_electrode_channels
        /\ electrode_areas = d.electrode_areas
        /\ sum_of_all_nan = d.sum_of_all_nan
    /\ steps = [s \in Steps |-> NoOptions]
    /\ current_step_number = 0
    /\ subscriptions = {}
    /\ handler = "__init__"
    /\ msg = NoMsg
    /\ log = <<>>
    /\ raised = "None"
    /\ returned = NoResult
    /\ handled = 0
    /\ translated = <<>>
    /\ pc = "idle"
    /\ frame = NoFrame

\* a mutant of Connect: the client starts from fresh step options
Connect_fresh_state ==
    /\ subscriptions' = subscriptions \cup SubscribedTopics
    /\ handler' = "on_connect"
    /\ msg' = NoMsg
    /\ log' = <<>>
    /\ raised' = "None"
    /\ returned' = NoResult
    /\ steps' = [s \in Steps |-> NoOptions]
    /\ UNCHANGED <<device, current_step_number, handled, translated, thread>>

\* the connection to the broker is lost: the broker drops the client's
\* subscriptions, the plugin is not called
Disconnect ==
    /\ subscriptions # {}
    /\ subscriptions' = {}
    /\ handler' = "on_disconnect"
    /\ msg' = NoMsg
    /\ log' = <<>>
    /\ raised' = "None"
    /\ returned' = NoResult
    /\ UNCHANGED <<device, steps, current_step_number, handled, translated, thread>>

Connect ==
    /\ subscriptions' = subscriptions \cup SubscribedTopics
    /\ handler' = "on_connect"
    /\ msg' = NoMsg
    /\ log' = <<>>
    /\ raised' = "None"
    /\ returned' = NoResult
    /\ UNCHANGED <<device, steps, current_step_number, handled, translated, thread>>

\* the client calls on_message with a message of a subscribed topic
Handle(topic, payload) ==
    /\ topic \in subscriptions
    /\ \E out \in {on_message(steps[current_step_number], current_step_number, df_electrode_channels, electrode_areas, sum_of_all_nan, topic, payload)} :
        /\ handled' = handled + 1
        /\ handler' = "on_message"
        /\ msg' = Delivered(topic, payload)
        /\ steps' = [steps EXCEPT ![current_step_number] = out.options]
        /\ log' = out.log
        /\ raised' = out.raised
        /\ returned' = out.result
        /\ UNCHANGED <<device, current_step_number, subscriptions, thread>>

Deliver(topic, payload) == handled < MaxHandled /\ Handle(topic, payload) /\ UNCHANGED translated

Message == \E topic \in SubscribedTopics : \E payload \in PayloadsOn(topic) : Deliver(topic, payload)

\* the host made step_number the current step and signals the plugin
on_step_swapped(old_step_number, step_number) ==
    /\ old_step_number = current_step_number
    /\ handled < MaxHandled
    /\ \E out \in {get_channel_states(steps[step_number], step_number, df_electrode_channels, electrode_areas, sum_of_all_nan)} :
        /\ current_step_number' = step_number
        /\ handler' = "on_step_swapped"
        /\ msg' = NoMsg
        /\ steps' = [steps EXCEPT ![step_number] = out.options]
        /\ log' = out.log
        /\ raised' = out.raised
        /\ returned' = out.result
        /\ handled' = handled + 1
        /\ UNCHANGED <<device, subscriptions, translated, thread>>

StepSwapped == \E old_step_number, step_number \in Steps : on_step_swapped(old_step_number, step_number)

Next == Connect \/ Disconnect \/ Message \/ StepSwapped

Spec == Init /\ [][Next]_vars

\* ------------------------------------------- the translator on its own
\* the electrode/channel tables of at most MaxMapLen distinct rows
MappingTables == {df \in UNION {[1..n -> Electrodes \X Channels] : n \in 0..MaxMapLen} : \A i, j \in DOMAIN df : df[i] = df[j] => i = j}

\* the Series of at most MaxInputLen entries with distinct labels
TranslatorInputs == {s \in UNION {[1..n -> Electrodes \X StateValues] : n \in 0..MaxInputLen} : IsUnique(s)}

InitTranslate ==
    /\ df_electrode_channels \in MappingTables
    /\ translated \in TranslatorInputs
    /\ pc = "idle"
    /\ frame = NoFrame
    /\ electrode_areas = CompleteAreas
    /\ sum_of_all_nan = 0
    /\ steps = [s \in Steps |-> NoOptions]
    /\ current_step_number = 0
    /\ subscriptions = {}
    /\ handler = "__init__"
    /\ msg = NoMsg
    /\ log = <<>>
    /\ raised = "None"
    /\ returned = NoResult
    /\ handled = 0

\* get_state(translated) is called and returns
Translate ==
    /\ handler = "__init__"
    /\ handler' = "get_state"
    /\ \E result \in {get_state(df_electrode_channels, translated)} :
        returned' = Result(result, get_actuated_area(electrode_areas, result.electrode_states, sum_of_all_nan))
    /\ UNCHANGED <<device, steps, current_step_number, subscriptions, msg, log, raised, handled, translated, thread>>

SpecTranslate == InitTranslate /\ [][Translate]_vars

\* the authoritative electrode states of a step
StatesOf(all_steps, step) == electrode_states_getter(all_steps[step])

\* the authoritative electrode states of the current step
Authoritative == StatesOf(steps, current_step_number)

\* ---------------------------------------- the store under set-states alone
\* the Series of at most MaxStoreUpdateLen entries with distinct labels
StoreUpdates == {s \in UNION {[1..n -> Electrodes \X StateValues] : n \in 0..MaxStoreUpdateLen} : IsUnique(s)}

\* the set-electrode-states payload that carries electrode_states alone
SetStatesOf(electrode_states) == Payload(TRUE, {"electrode_states"}, PandasJsonEncode(electrode_states), FALSE, "", 0)

\* a set-electrode-states message of the user interface; translated keeps
\* the electrode_states of the payload, which get_state is handed
StoreSet == \E s \in StoreUpdates : handled < MaxStoreHandled /\ Handle(TopicUiSetStates, SetStatesOf(s)) /\ translated' = s

\* a set-electrode-states message whose update is the snapshot published
\* last, the authoritative electrode states of the current step
EchoSet == handled < MaxStoreHandled /\ Authoritative # <<>> /\ Handle(TopicUiSetStates, SetStatesOf(Authoritative)) /\ translated' = Authoritative

\* a get-channel-states message; get_state is handed the authoritative
\* electrode states
StoreQuery == handled < MaxStoreHandled /\ Handle(TopicUiGetChannelStates, Undecodable) /\ translated' = Authoritative

NextStore == Connect \/ StoreSet \/ EchoSet \/ StoreQuery

SpecStore == Init /\ [][NextStore]_vars

\* --------------------------------------------- the actuated area on its own
\* the electrode state maps of at most MaxAreaLen entries
AreaInputs == {s \in UNION {[1..n -> Electrodes \X StateValues] : n \in 0..MaxAreaLen} : IsUnique(s)}

InitArea ==
    /\ df_electrode_channels = <<>>
    /\ electrode_areas \in {CompleteAreas, PartialAreas}
    /\ sum_of_all_nan \in {0, NaN}
    /\ translated \in AreaInputs
    /\ steps = [s \in Steps |-> NoOptions]
    /\ current_step_number = 0
    /\ subscriptions = {}
    /\ handler = "__init__"
    /\ msg = NoMsg
    /\ log = <<>>
    /\ raised = "None"
    /\ returned = NoResult
    /\ handled = 0
    /\ pc = "idle"
    /\ frame = NoFrame

\* get_actuated_area(states) is called and returns
AreaOfStates(states) == [NoResult EXCEPT !.returned = TRUE, !.electrode_states = states, !.actuated_area = get_actuated_area(electrode_areas, states, sum_of_all_nan)]

ComputeArea ==
    /\ handler = "__init__"
    /\ handler' = "get_actuated_area"
    /\ returned' = AreaOfStates(translated)
    /\ UNCHANGED <<device, steps, current_step_number, subscriptions, msg, log, raised, handled, translated, thread>>

\* the area is computed again for the map with one more electrode, of a
\* state above 0
AddActuated(electrode_id, state) ==
    /\ handler = "get_actuated_area"
    /\ electrode_id \notin Keys(translated)
    /\ state > 0
    /\ translated' = Append(translated, <<electrode_id, state>>)
    /\ handler' = "add"
    /\ returned' = AreaOfStates(translated')
    /\ UNCHANGED <<device, steps, current_step_number, subscriptions, msg, log, raised, handled, thread>>

\* the area is computed again for the map with the state of one of its
\* electrodes set to 0
SetToZero(electrode_id) ==
    /\ handler = "get_actuated_area"
    /\ electrode_id \in Keys(translated)
    /\ translated' = [i \in DOMAIN translated |-> IF translated[i][1] = electrode_id THEN <<electrode_id, 0>> ELSE translated[i]]
    /\ handler' = "clear"
    /\ returned' = AreaOfStates(translated')
    /\ UNCHANGED <<device, steps, current_step_number, subscriptions, msg, log, raised, handled, thread>>

NextArea ==
    \/ ComputeArea
    \/ \E electrode_id \in Electrodes, state \in StateValues : AddActuated(electrode_id, state)
    \/ \E electrode_id \in Electrodes : SetToZero(electrode_id)

SpecArea == InitArea /\ [][NextArea]_vars

\* ------------------- set_electrode_states in the MQTT thread, step by step
\* on_message is called in the MQTT client's thread with a well-formed
\* set-electrode-states message: the payload is decoded and translated
Receive(payload) ==
    /\ pc = "idle"
    /\ handled < MaxThreadHandled
    /\ TopicUiSetStates \in subscriptions
    /\ \E data \in {LoadsWithHook(payload)} :
        frame' = [NoFrame EXCEPT !.save = IF "save" \in data.fields THEN data.save ELSE FALSE, !.result = get_state(df_electrode_channels, data.electrode_states)]
    /\ pc' = "combine_first"
    /\ handled' = handled + 1
    /\ handler' = "on_message"
    /\ msg' = Delivered(TopicUiSetStates, payload)
    /\ log' = <<>>
    /\ raised' = "None"
    /\ returned' = NoResult
    /\ UNCHANGED <<device, steps, current_step_number, subscriptions, translated>>

\* result['electrode_states'].combine_first(self.electrode_states): the
\* getter reads the options of the step that is current now
ReadAndMerge ==
    /\ pc = "combine_first"
    /\ frame' = [frame EXCEPT !.merged = combine_first(frame.result.electrode_states, Authoritative), !.accessed = Append(@, current_step_number)]
    /\ pc' = "setter"
    /\ UNCHANGED <<device, steps, current_step_number, subscriptions, handler, msg, log, raised, returned, handled, translated>>

\* self.electrode_states = ...: the setter writes the options of the step
\* that is current now
Write ==
    /\ pc = "setter"
    /\ steps' = [steps EXCEPT ![current_step_number] = electrode_states_setter(@, frame.merged)]
    /\ log' = Append(log, WriteEvent(current_step_number, frame.merged))
    /\ frame' = [frame EXCEPT !.accessed = Append(@, current_step_number)]
    /\ pc' = "idle_add"
    /\ UNCHANGED <<device, current_step_number, subscriptions, handler, msg, raised, returned, handled, translated>>

\* if save: gtk.idle_add(notify, app.protocol.current_step_number)
Notify ==
    /\ pc = "idle_add"
    /\ log' = IF frame.save THEN Append(log, IdleAddEvent(current_step_number)) ELSE log
    /\ pc' = "get_actuated_area"
    /\ UNCHANGED <<device, steps, current_step_number, subscriptions, handler, msg, raised, returned, handled, translated, frame>>

\* result['actuated_area'] = self.get_actuated_area(self.electrode_states)
Area ==
    /\ pc = "get_actuated_area"
    /\ frame' = [frame EXCEPT !.area_states = Authoritative, !.actuated_area = get_actuated_area(electrode_areas, Authoritative, sum_of_all_nan), !.accessed = Append(@, current_step_number)]
    /\ pc' = "publish"
    /\ UNCHANGED <<device, steps, current_step_number, subscriptions, handler, msg, log, raised, returned, handled, translated>>

\* data['electrode_states'] = self.electrode_states; publish; return result
Publish ==
    /\ pc = "publish"
    /\ log' = Append(log, PublishEvent(current_step_number, TopicOutSetStates, [NoData EXCEPT !.keys = {"electrode_states"}, !.electrode_states = PandasJsonEncode(Authoritative)]))
    /\ frame' = [frame EXCEPT !.accessed = Append(@, current_step_number)]
    /\ returned' = Result(frame.result, frame.actuated_area)
    /\ pc' = "idle"
    /\ UNCHANGED <<device, steps, current_step_number, subscriptions, handler, msg, raised, handled, translated>>

\* the host, in the GTK thread, makes step_number the current step and
\* calls on_step_swapped, wherever the MQTT thread stands
HostSwap(step_number) ==
    /\ step_number # current_step_number
    /\ handled < MaxThreadHandled
    /\ \E out \in {get_channel_states(steps[step_number], step_number, df_electrode_channels, electrode_areas, sum_of_all_nan)} :
        /\ current_step_number' = step_number
        /\ steps' = [steps EXCEPT ![step_number] = out.options]
        /\ log' = log \o out.log
        /\ handled' = handled + 1
    /\ UNCHANGED <<device, subscriptions, handler, msg, raised, returned, translated, thread>>

NextThreads ==
    \/ pc = "idle" /\ Connect
    \/ \E payload \in WellFormedSetStates : Receive(payload)
    \/ ReadAndMerge
    \/ Write
    \/ Notify
    \/ Area
    \/ Publish
    \/ \E step_number \in Steps : HostSwap(step_number)

SpecThreads == Init /\ [][NextThreads]_vars

\* ------------------------------------------------------------------ claims
InboundSetTopics == {TopicPlanningSetStates, TopicUiSetStates, TopicPlanningSetState, TopicUiSetState}

\* the last step delivered a message to on_message
MessageHandled == handler = "on_message"

\* the last step ran set_electrode_states to its end
SetReturned == MessageHandled /\ msg.topic \in InboundSetTopics /\ returned.returned

\* the last step ran get_channel_states, for a query or for a step swap
QueryHandled == handler = "on_step_swapped" \/ (MessageHandled /\ msg.topic = TopicUiGetChannelStates)

Published(topic) == {i \in DOMAIN log : log[i].op = "publish" /\ log[i].topic = topic}

Logged(op) == {i \in DOMAIN log : log[i].op = op}

\* C1: the merge of set_electrode_states is a sparse patch: with U the
\* translator's electrode states and S the prior map, the new map has the
\* labels of U and of S, each once, the value of U for every label of U and
\* the value of S for every label only S has; an empty U leaves S as it was.
C1_MergeIsSparsePatch ==
    [][(handled' = handled + 1 /\ SetReturned') =>
        LET U == returned'.electrode_states
            S == StatesOf(steps, current_step_number)
            T == StatesOf(steps', current_step_number)
        IN  /\ IsUnique(T)
            /\ Keys(T) = Keys(U) \cup Keys(S)
            /\ \A k \in Keys(U) : At(T, k) = At(U, k)
            /\ \A k \in Keys(S) \ Keys(U) : At(T, k) = At(S, k)
            /\ U = <<>> => T = S
            /\ \A s \in Steps \ {current_step_number} : steps'[s] = steps[s]]_vars

\* C1 witness: a set whose update left labels of the prior map in place
C1_Witness == SetReturned /\ returned.electrode_states # <<>> /\ Keys(Authoritative) \ Keys(returned.electrode_states) # {}

\* C2: whatever is handled (a message on any topic, a step swap, a
\* connect), no step loses a label of its authoritative electrode states.
C2_KeysNeverShrink == [][\A s \in Steps : Keys(StatesOf(steps, s)) \subseteq Keys(StatesOf(steps', s))]_vars

\* C2 witness: a second message was handled on a step that holds states
C2_Witness == MessageHandled /\ handled = 2 /\ msg.well_formed /\ Cardinality(Keys(Authoritative)) >= 2

\* C3: every snapshot published on set-electrode-states comes after the
\* write of the merged map, and carries exactly the electrode states the
\* step holds after the merge, all labels of it.
C3_WriteBeforePublish ==
    \A i \in Published(TopicOutSetStates) :
        /\ \E j \in Logged("write") : j < i /\ log[j].step = log[i].step /\ log[j].value = pandas_object_hook(log[i].data.electrode_states)
        /\ log[i].data.keys = {"electrode_states"}
        /\ pandas_object_hook(log[i].data.electrode_states) = StatesOf(steps, log[i].step)

\* C3 witness: a snapshot was published that holds more than the update
C3_Witness == SetReturned /\ Published(TopicOutSetStates) # {} /\ Keys(Authoritative) \ Keys(returned.electrode_states) # {}

\* C4: get_channel_states, run for a query or for a step swap, leaves the
\* step options of every step as they were.
C4_QueryLeavesStates == [][(handled' = handled + 1 /\ QueryHandled') => steps' = steps]_vars

\* C4 witness: a step swap or a query published the view of a step that
\* holds electrode states
C4_Witness == QueryHandled /\ Authoritative # <<>> /\ Published(TopicOutGetChannelStates) # {}

\* C5: a malformed payload on a set topic changes no step options, and
\* nothing is published and no save notification is queued for it.
C5_MalformedHasNoEffect == [][(handled' = handled + 1 /\ MessageHandled' /\ ~msg'.well_formed) => (steps' = steps /\ log' = <<>>)]_vars

\* C5 witness: a malformed payload arrived at a step that holds states
C5_Witness == MessageHandled /\ ~msg.well_formed /\ msg.topic \in InboundSetTopics /\ Authoritative # <<>>

\* C6: on_message returns normally for a malformed payload, so that the
\* error does not reach the loop that called it.
C6_MalformedReturnsNormally == (MessageHandled /\ ~msg.well_formed) => raised = "None"

\* the topics whose messages on_message hands to a handler
DispatchedTopics == {TopicPlanningSetStates, TopicUiSetStates, TopicUiSetState, TopicUiGetChannelStates}

\* an electrode of the Series is actuated and the area table lacks it
AreaMiss(states) == \E k \in Keys(states) : At(states, k) > 0 /\ ~HasKey(electrode_areas, k)

\* C7: when the area lookup misses an actuated electrode, the request
\* fails with an error and publishes nothing (for a set the merge stands).
C7_AreaMissFailsRequest == (MessageHandled /\ msg.well_formed /\ msg.topic \in DispatchedTopics /\ AreaMiss(Authoritative)) => (raised # "None" /\ Published(TopicOutSetStates) = {} /\ Published(TopicOutGetChannelStates) = {})

\* C8: a well-formed message on each of the five subscribed topics is
\* dispatched: a set topic gives a merge and a snapshot, the query topic a
\* get-channel-states publish.
C8_EverySubscribedTopicDispatched == (MessageHandled /\ msg.well_formed /\ msg.topic \in SubscribedTopics) => IF msg.topic \in InboundSetTopics THEN Logged("write") # {} /\ Published(TopicOutSetStates) # {} ELSE Published(TopicOutGetChannelStates) # {}

\* the places <<i, r>> where entry i of the input meets row r of the table
\* on channel c, and their order: input order first, table order second
Hits(c) == {h \in (DOMAIN translated) \X (DOMAIN df_electrode_channels) : df_electrode_channels[h[2]][1] = translated[h[1]][1] /\ df_electrode_channels[h[2]][2] = c}

Pos(h) == h[1] * (Len(df_electrode_channels) + 1) + h[2]

FirstHit(c) == CHOOSE h \in Hits(c) : \A g \in Hits(c) : Pos(h) <= Pos(g)

\* the channels of electrode e that the input reaches, and the one reached first
ReachedChannels(e) == {c \in Channels : Hits(c) # {} /\ <<e, c>> \in Range(df_electrode_channels)}

FirstChannel(e) == CHOOSE c \in ReachedChannels(e) : \A d \in ReachedChannels(e) : Pos(FirstHit(c)) <= Pos(FirstHit(d))

\* C9: for every input Series and every electrode/channel table, get_state
\* returns channel states with each channel once and electrode states with
\* each electrode once; a channel holds the value of the first input entry
\* that reaches it, and an electrode the value of the first reached channel
\* it is wired to.
C9_FirstSeenWins ==
    handler = "get_state" =>
        /\ IsUnique(returned.channel_states)
        /\ IsUnique(returned.electrode_states)
        /\ Keys(returned.channel_states) = {c \in Channels : Hits(c) # {}}
        /\ \A c \in Keys(returned.channel_states) : At(returned.channel_states, c) = translated[FirstHit(c)[1]][2]
        /\ Keys(returned.electrode_states) = {e \in Electrodes : ReachedChannels(e) # {}}
        /\ \A e \in Keys(returned.electrode_states) : At(returned.electrode_states, e) = At(returned.channel_states, FirstChannel(e))

\* C9 witness: two input entries with different values reached one channel
C9_Witness == handler = "get_state" /\ \E c \in Channels : \E h, g \in Hits(c) : h[1] < g[1] /\ translated[h[1]][2] # translated[g[1]][2]

\* the channels electrode e is wired to, and the electrodes wired to them
ChannelsOf(e) == {c \in Channels : <<e, c>> \in Range(df_electrode_channels)}

Siblings(e) == {f \in Electrodes : ChannelsOf(f) \cap ChannelsOf(e) # {}}

\* C10: a set of the one electrode e to v gives the channels of e the value
\* v and no other channel a value, returns v for e and for every electrode
\* that shares a channel with e, and leaves v for all of them in the
\* authoritative states of the step.
C10_SiblingExpansion ==
    [][\A e \in Electrodes, v \in StateValues :
        (handled' = handled + 1 /\ MessageHandled' /\ msg'.topic \in DispatchedTopics /\ msg'.single = <<<<e, v>>>>) =>
            /\ Keys(returned'.channel_states) = ChannelsOf(e)
            /\ \A c \in ChannelsOf(e) : At(returned'.channel_states, c) = v
            /\ Keys(returned'.electrode_states) = Siblings(e)
            /\ \A f \in Siblings(e) : At(returned'.electrode_states, f) = v /\ At(StatesOf(steps', current_step_number), f) = v]_vars

\* C10 witness: a set of a single electrode reached one channel and stored
\* its value for the two electrodes that share the channel
C10_Witness == SetReturned /\ Len(msg.single) = 1 /\ Len(returned.channel_states) = 1 /\ Len(returned.electrode_states) = 2 /\ \A k \in Keys(returned.electrode_states) : HasKey(Authoritative, k) /\ At(Authoritative, k) = At(returned.electrode_states, k)

\* C11: a set whose update equals the authoritative electrode states S of
\* the current step leaves S unchanged (the case of idempotence in which the
\* message repeats what the store already holds).
C11_EchoLeavesState == [][EchoSet => steps' = steps]_vars

\* two Series hold the same labels with the same values
SameMap(a, b) == Keys(a) = Keys(b) /\ \A k \in Keys(a) : At(a, k) = At(b, k)

\* C12: a get-channel-states query handled right after a set that returned
\* publishes electrode_states equal to the authoritative map the set
\* published and the actuated_area the set computed; with an empty
\* authoritative map it publishes empty electrode_states and channel_states
\* and actuated_area 0.
C12_QueryEchoesSet ==
    [][(handled' = handled + 1 /\ MessageHandled' /\ msg'.topic = TopicUiGetChannelStates) =>
        /\ Published(TopicOutGetChannelStates)' # {}
        /\ \A i \in Published(TopicOutGetChannelStates)' :
            /\ SetReturned =>
                /\ SameMap(pandas_object_hook(log'[i].data.electrode_states), Authoritative)
                /\ log'[i].data.actuated_area = returned.actuated_area
            /\ Authoritative = <<>> =>
                /\ log'[i].data.electrode_states = PandasJsonEncode(<<>>)
                /\ log'[i].data.channel_states = PandasJsonEncode(<<>>)
                /\ log'[i].data.actuated_area = 0]_vars

\* C13: the save request (gtk.idle_add of the notification, for the current
\* step) is queued exactly when the handled message is a set-electrode-states
\* message whose payload carries save = true, at most once per message,
\* never by a set-electrode-state message, a query or a step swap, and only
\* after the merged map was written to the step's electrode states.
C13_SaveNotification ==
    /\ Cardinality(Logged("idle_add")) <= 1
    /\ Logged("idle_add") # {} <=> (MessageHandled /\ msg.topic \in {TopicPlanningSetStates, TopicUiSetStates} /\ msg.well_formed /\ msg.save)
    /\ \A i \in Logged("idle_add") :
        /\ log[i].step = current_step_number
        /\ \E j \in Logged("write") : j < i /\ log[j].step = current_step_number /\ log[j].value = Authoritative

\* C13 witness: a set with save = true changed the map and queued the request
C13_Witness == Logged("idle_add") # {} /\ msg.save /\ Authoritative # <<>>

\* C14: in a set message that carries the save flag the save request to the
\* step-persistence collaborator comes last: it is issued only after the
\* set-electrode-states snapshot was published (and so after the actuated
\* area was computed), never for a message whose publish did not complete.
C14_NotifyAfterPublish == \A i \in Logged("idle_add") : \E j \in Published(TopicOutSetStates) : j < i

\* C15: a set message is processed atomically with respect to a step swap
\* of the host: once set_electrode_states has returned, the step whose map
\* was read for the merge, the step written, the step whose map was used
\* for the area and the step whose map was published are one step, and the
\* map written, the map used for the area and the map published are the
\* one merged map.
C15_SetIsAtomic ==
    (pc = "idle" /\ frame.accessed # <<>>) =>
        /\ \A i \in DOMAIN frame.accessed : frame.accessed[i] = frame.accessed[1]
        /\ frame.area_states = frame.merged
        /\ \A j \in Published(TopicOutSetStates) : pandas_object_hook(log[j].data.electrode_states) = frame.merged

\* C16: losing the connection and on_connect being called again leave the
\* electrode states of every step and the current step as they were, and
\* after on_connect all five inbound topics are subscribed, so that the
\* messages that follow are merged into the map held before.
C16_ReconnectKeepsState ==
    [][(handler' \in {"on_connect", "on_disconnect"}) =>
        /\ steps' = steps
        /\ current_step_number' = current_step_number
        /\ handler' = "on_connect" => (subscriptions' = SubscribedTopics /\ Cardinality(subscriptions') = 5)]_vars

\* C16 witness: on_connect was called again when the current step held
\* electrode states of earlier messages
C16_Witness == handler = "on_connect" /\ handled >= 1 /\ Authoritative # <<>> /\ subscriptions = SubscribedTopics

RECURSIVE SumOver(_, _)
\* the sum of f over the set
SumOver(f(_), set) == IF set = {} THEN 0 ELSE With(CHOOSE x \in set : TRUE, LAMBDA x : f(x) + SumOver(f, set \ {x}))

\* the area of an electrode of the area table
AreaOf(electrode_id) == At(electrode_areas, electrode_id)

\* the electrodes of the map whose state is above 0
Actuated(states) == {k \in Keys(states) : At(states, k) > 0}

\* C17: with non-negative areas for the actuated electrodes, adding an
\* electrode of a state above 0 to the map never decreases
\* get_actuated_area, and setting the state of an electrode to 0 makes the
\* area the sum of the areas of the remaining electrodes of a state above 0:
\* electrodes of state 0 and electrodes not in the map add nothing.
C17_AreaMonotonic ==
    [][(Actuated(translated) \cup Actuated(translated') \subseteq Keys(electrode_areas) /\ \A k \in Keys(electrode_areas) : AreaOf(k) >= 0) =>
        /\ handler' \in {"get_actuated_area", "add", "clear"} => returned'.actuated_area = SumOver(AreaOf, Actuated(translated'))
        /\ handler' = "add" => returned'.actuated_area >= returned.actuated_area
        /\ handler' = "clear" => returned'.actuated_area <= returned.actuated_area]_vars

\* C17 witness: an actuated electrode was set to 0 and the area fell to the
\* area of the electrode that is still actuated
C17_Witness == handler = "clear" /\ returned.actuated_area > 0 /\ Cardinality(Actuated(translated)) = 1 /\ Len(translated) = 2

\* the electrodes of the Series that have a channel in the mapping
Mapped(update) == {k \in Keys(update) : ChannelsOf(k) # {}}

\* the entry of label k differs between the two Series
Differ(a, b, k) == HasKey(a, k) # HasKey(b, k) \/ (HasKey(a, k) /\ HasKey(b, k) /\ At(a, k) # At(b, k))

\* C18: a set message raises no error for electrodes that have no channel
\* in the mapping; when none of its electrodes has a channel the
\* authoritative states are left as they were and the unchanged
\* set-electrode-states snapshot is still published; in a mixed update the
\* only entries that change are those of the electrodes that have a channel
\* and of the electrodes sharing a channel with them.
C18_UnmappedDropped ==
    [][(handled' = handled + 1 /\ MessageHandled' /\ msg'.topic = TopicUiSetStates) =>
        /\ raised' = "None"
        /\ \A s \in Steps \ {current_step_number} : steps'[s] = steps[s]
        /\ \A k \in Electrodes : Differ(StatesOf(steps, current_step_number), StatesOf(steps', current_step_number), k) => \E e \in Mapped(translated') : k \in Siblings(e)
        /\ \A e \in Mapped(translated') : HasKey(StatesOf(steps', current_step_number), e)
        /\ Mapped(translated') = {} =>
            /\ StatesOf(steps', current_step_number) = StatesOf(steps, current_step_number)
            /\ Published(TopicOutSetStates)' # {}
            /\ \A j \in Published(TopicOutSetStates)' : log'[j].data.electrode_states = PandasJsonEncode(StatesOf(steps, current_step_number))]_vars

\* C18 witness: a set that named only electrodes without a channel was
\* handled when the step held electrode states
C18_Witness == MessageHandled /\ msg.topic = TopicUiSetStates /\ translated # <<>> /\ Mapped(translated) = {} /\ Authoritative # <<>> /\ Published(TopicOutSetStates) # {}

\* C19: after any sequence of well-formed set messages from the empty state,
\* two electrodes of the authoritative map of a step that share a channel
\* hold the same state value.
C19_SiblingsAgree == \A s \in Steps : \A e, f \in Keys(StatesOf(steps, s)) : ChannelsOf(e) \cap ChannelsOf(f) # {} => At(StatesOf(steps, s), e) = At(StatesOf(steps, s), f)

====
